---- MODULE Spec2Model ----
(***************************************************************************)
(* A model of src/buck.py: the PaginatedScraper class (profile parser,     *)
(* persistence layer with database-to-file fallback, breadth-first crawl   *)
(* driver) and the part of main() that constructs a scraper and runs it.   *)
(***************************************************************************)
EXTENDS Integers, Sequences, FiniteSets, TLC

VARIABLES
    \* ---- storage, outside the scraper instance
    collection,         \* module global `collection`: [connected, docs]
    file,               \* contents of faculty_profiles.json (a list of records)
    \* ---- the PaginatedScraper instance
    use_file_storage,   \* self.use_file_storage
    existing_profiles,  \* self.existing_profiles
    \* ---- what the most recent method call did
    call,               \* the method called and its argument
    trace,              \* backend operations it performed, in order
    raised,             \* whether an exception left the call
    result,             \* its return value
    \* ---- scrape_all_pages: locals and loop position
    pc,                 \* "idle", "running" (inside the while loop), "done"
    run,                \* number of the current program run (main() invocation)
    max_pages,          \* the max_pages argument (NoCap for None)
    visited_urls,
    urls_to_visit,
    all_profiles,
    page_count,
    current_url,
    fetched,            \* whether get_page(current_url) returned html
    profiles_data,
    pagination_links,
    stored_at_start,    \* what the file and the collection held when the run began
    \* ---- scrape_all_pages: history of the run
    enqueued,           \* the URLs appended to urls_to_visit, in the order of
                        \* their first append (the start URL first)
    fetch_order         \* the URLs handed to scrape_directory_page, in order

store_vars == <<collection, file, use_file_storage, existing_profiles>>
call_vars  == <<call, trace, raised, result>>
crawl_vars == <<pc, run, max_pages, visited_urls, urls_to_visit, all_profiles,
                page_count, current_url, fetched, profiles_data,
                pagination_links, stored_at_start, enqueued, fetch_order>>
vars == <<store_vars, call_vars, crawl_vars>>

(***************************************************************************)
(* Bounds of the model.                                                    *)
(***************************************************************************)
MaxLinks       == 2     \* pagination links on one directory page
MaxPeopleLinks == 2     \* people links on one directory page, when runs are repeated
MaxRuns        == 2     \* program runs over the same stores
MaxStored      == 2     \* a further run is started only on stores this small
MaxBatch       == 2     \* records in one direct save_profiles call
MaxHeld        == 3     \* records held when the methods are called directly
MaxDivs        == 2     \* div elements on a profile page
MaxPagesArg    == 2     \* the page cap, when scrape_all_pages is given one
MaxRerunLinks  == 0     \* pagination links per page when runs are repeated

(***************************************************************************)
(* Values.                                                                 *)
(***************************************************************************)
Origin == "https://linguistics.osu.edu"
base_url == "https://linguistics.osu.edu/people"

\* hrefs containing '/people/': site-relative and absolute
RelativeHrefs == {"/people/a"}
AbsoluteHrefs == {"https://linguistics.osu.edu/people/a"}
Hrefs == RelativeHrefs \cup AbsoluteHrefs

\* urljoin(base, href) for the hrefs above: an absolute href replaces the
\* base, a rooted path replaces the base's path
urljoin(base, href) ==
    IF href \in AbsoluteHrefs THEN href ELSE Origin \o href

NoText == "None"

RECURSIVE SeqsUpTo(_, _)
SeqsUpTo(S, n) ==
    IF n = 0 THEN {<<>>}
    ELSE LET shorter == SeqsUpTo(S, n - 1)
         IN  shorter \cup {Append(s, x) : s \in shorter, x \in S}

Range(s) == {s[i] : i \in DOMAIN s}

Paths(records) == {records[i].profile_path : i \in DOMAIN records}

(***************************************************************************)
(* Persistence layer.  Each method is an operator from the storage state   *)
(*   st = [collection, file, use_file_storage, existing_profiles,          *)
(*         trace, raised, result]                                          *)
(* and its arguments (and the outcome of the I/O it attempts) to the       *)
(* storage state after the call.                                           *)
(***************************************************************************)
Store ==
    [collection |-> collection, file |-> file,
     use_file_storage |-> use_file_storage,
     existing_profiles |-> existing_profiles,
     trace |-> <<>>, raised |-> FALSE, result |-> NoText]

\* load_from_file: the parsed file, or [] when it does not exist
load_from_file == file

\* __init__: existing_profiles is loaded only when use_file_storage is set
init_existing_profiles(ufs) == IF ufs THEN load_from_file ELSE <<>>

\* save_to_file: extend the in-memory list, rewrite the whole file from it;
\* an exception of the write is logged and swallowed
save_to_file(st, data, write_ok) ==
    LET extended == st.existing_profiles \o data
    IN  [st EXCEPT !.existing_profiles = extended,
                   !.file = IF write_ok THEN extended ELSE @,
                   !.trace = Append(@, "save_to_file"),
                   !.raised = FALSE]

\* collection.insert_many: all documents on success; on failure the first k
\* documents (ordered insert, k < Len(data)) are in the collection
insert_many(st, data, insert_ok, k) ==
    [st EXCEPT !.collection.docs =
                   @ \o (IF insert_ok THEN data ELSE SubSeq(data, 1, k)),
               !.trace = Append(@, "insert_many")]

\* profile_exists that asks the database even after the downgrade
profile_exists_db_first(st, profile_path) ==
    IF st.collection.connected
    THEN [st EXCEPT !.trace = Append(@, "find_one"),
                    !.result = profile_path \in Paths(st.collection.docs)]
    ELSE IF st.use_file_storage
    THEN [st EXCEPT !.trace = Append(@, "scan_existing_profiles"),
                    !.result = profile_path \in Paths(st.existing_profiles)]
    ELSE [st EXCEPT !.result = FALSE]

profile_exists(st, profile_path) ==
    IF st.use_file_storage
    THEN [st EXCEPT !.trace = Append(@, "scan_existing_profiles"),
                    !.result = profile_path \in Paths(st.existing_profiles)]
    ELSE IF st.collection.connected
    THEN [st EXCEPT !.trace = Append(@, "find_one"),
                    !.result = profile_path \in Paths(st.collection.docs)]
    ELSE [st EXCEPT !.result = FALSE]

\* save_profiles that does not fall back to the file when the insert fails
save_profiles_no_fallback(st, data, insert_ok, k, write_ok) ==
    IF data = <<>> THEN st
    ELSE IF st.use_file_storage THEN save_to_file(st, data, write_ok)
    ELSE IF st.collection.connected
    THEN LET ins == insert_many(st, data, insert_ok, k)
         IN  IF insert_ok THEN ins ELSE [ins EXCEPT !.raised = TRUE]
    ELSE save_to_file([st EXCEPT !.use_file_storage = TRUE], data, write_ok)

\* save_profiles without the early return on an empty list
save_profiles_no_empty_check(st, data, insert_ok, k, write_ok) ==
    IF st.use_file_storage THEN save_to_file(st, data, write_ok)
    ELSE IF st.collection.connected
    THEN LET ins == insert_many(st, data, insert_ok, k)
         IN  IF insert_ok THEN ins
             ELSE save_to_file([ins EXCEPT !.use_file_storage = TRUE],
                               data, write_ok)
    ELSE save_to_file([st EXCEPT !.use_file_storage = TRUE], data, write_ok)

save_profiles(st, data, insert_ok, k, write_ok) ==
    IF data = <<>> THEN st
    ELSE IF st.use_file_storage THEN save_to_file(st, data, write_ok)
    ELSE IF st.collection.connected
    THEN LET ins == insert_many(st, data, insert_ok, k)
         IN  IF insert_ok THEN ins
             ELSE save_to_file([ins EXCEPT !.use_file_storage = TRUE],
                               data, write_ok)
    ELSE save_to_file([st EXCEPT !.use_file_storage = TRUE], data, write_ok)

\* the storage variables and the call's record after a method returned st
StoreBecomes(st) ==
    /\ collection' = st.collection
    /\ file' = st.file
    /\ use_file_storage' = st.use_file_storage
    /\ existing_profiles' = st.existing_profiles
    /\ trace' = st.trace
    /\ raised' = st.raised
    /\ result' = st.result

(***************************************************************************)
(* Profile pages.  A fetched page is the sequence of its div elements in   *)
(* document order; a div has its class attribute, the raw text of its h1   *)
(* (NoText when it has none), of its ul lists and of its p paragraphs.     *)
(***************************************************************************)
TopClass == "col-xs-12 col-sm-5 bio-top-left"
ExpClass == "col-xs-12 col-sm-6 bio-exp"
BtmClass == "col-xs-12 col-sm-9 bio-btm-left"

OtherClasses ==
    {"biography", "about", "profile-description", "faculty-bio", "sidebar"}
DivClasses == {TopClass, ExpClass, BtmClass} \cup OtherClasses

\* the classes whose attribute contains the substring "bio"
BioClasses == {TopClass, ExpClass, BtmClass, "biography", "faculty-bio"}

\* alternative_selectors, in order: the div classes each one selects
alternative_selectors ==
    << {"biography"}, {"about"}, {"profile-description"}, {"faculty-bio"},
       BioClasses, {"about"} >>

Blank == {"", "  "}
RawTexts == {"  ", "Syntax."}
Headings == {"Ada Lovelace"}

\* element.get_text(strip=True)
get_text(raw) == IF raw \in Blank THEN "" ELSE raw

Divs ==
    {[cls |-> c, h1 |-> h, ul |-> u, p |-> q] :
        c \in DivClasses, h \in Headings \cup {NoText},
        u \in SeqsUpTo(RawTexts, 1), q \in SeqsUpTo(RawTexts, 1)}

\* only the h1 of the name header and the lists of the expertise div are read
RelevantDivs ==
    {d \in Divs : /\ d.cls # TopClass => d.h1 = NoText
                  /\ d.cls # ExpClass => d.ul = <<>>}

ProfilePages == SeqsUpTo(RelevantDivs, MaxDivs)

\* what session.get delivers: a transport failure, or a page
NoResponse == [ok |-> FALSE, divs |-> <<>>]
Responses(pages) == {NoResponse} \cup {[ok |-> TRUE, divs |-> pg] : pg \in pages}

\* get_page: the html, or None after a RequestException
get_page(response) == response.ok

\* soup.find_all('div', class_=c) as the indices of the matching divs
find_all(divs, classes) == {i \in DOMAIN divs : divs[i].cls \in classes}

Min(S) == CHOOSE x \in S : \A y \in S : x <= y

RECURSIVE expertise_text(_)
expertise_text(uls) ==
    IF uls = <<>> THEN ""
    ELSE LET text == get_text(Head(uls))
         IN  (IF text # "" THEN "Areas of Expertise: " \o text \o "  " ELSE "")
             \o expertise_text(Tail(uls))

RECURSIVE paragraph_text(_)
paragraph_text(ps) ==
    IF ps = <<>> THEN ""
    ELSE LET text == get_text(Head(ps))
         IN  (IF text # "" THEN " " \o text \o " " ELSE "")
             \o paragraph_text(Tail(ps))

\* the p elements below the divs of the given classes, in document order
RECURSIVE select_p(_, _)
select_p(divs, classes) ==
    IF divs = <<>> THEN <<>>
    ELSE (IF Head(divs).cls \in classes THEN Head(divs).p ELSE <<>>)
         \o select_p(Tail(divs), classes)

NoneResult == [kind |-> "None", name |-> "", about |-> ""]
Raised     == [kind |-> "raise", name |-> "", about |-> ""]

\* the loop over alternative_selectors from selector number i on
RECURSIVE alternatives(_, _)
alternatives(divs, i) ==
    IF i > Len(alternative_selectors) THEN NoneResult
    ELSE LET elements == select_p(divs, alternative_selectors[i])
         IN  IF elements # <<>> /\ get_text(elements[1]) # ""
             THEN [kind |-> "str", name |-> "", about |-> get_text(elements[1])]
             ELSE alternatives(divs, i + 1)

\* the body of scrape_profile's try block
scrape_profile_body(response) ==
    IF ~get_page(response) THEN NoneResult
    ELSE
    LET divs == response.divs
        target_divs == find_all(divs, {BtmClass})
        tops == find_all(divs, {TopClass})
        exps == find_all(divs, {ExpClass})
    IN  \* h1_element is bound only when target_name was found, and is None
        \* when the header has no h1: h1_element.get_text raises in both cases
        IF tops = {} THEN Raised
        ELSE IF divs[Min(tops)].h1 = NoText THEN Raised
        ELSE
        LET name == get_text(divs[Min(tops)].h1)
            combined_text ==
                (IF exps = {} THEN "" ELSE expertise_text(divs[Min(exps)].ul))
                \o paragraph_text(select_p(divs, {BtmClass}))
        IN  IF combined_text # ""
            THEN [kind |-> "dict", name |-> name, about |-> combined_text]
            ELSE alternatives(divs, 1)

\* scrape_profile without the except clause: an exception leaves the call
scrape_profile_uncaught(response) == scrape_profile_body(response)

\* scrape_profile: any exception of the body is logged and None is returned
scrape_profile(response) ==
    LET r == scrape_profile_body(response)
    IN  IF r.kind = "raise" THEN NoneResult ELSE r

(***************************************************************************)
(* Directory pages and the crawl driver.                                   *)
(***************************************************************************)
DirUrls == {base_url, base_url \o "?page=1", base_url \o "?page=2"}

\* what session.get delivers for a directory page: a transport failure, or
\* a page, given by the hrefs of its anchors that contain '/people/' (in
\* document order) and the set of resolved urls its pagination anchors give
NoDirResponse == [ok |-> FALSE, people |-> <<>>, pagination |-> {}]
DirResponsesOver(people_lists, link_sets) ==
    {NoDirResponse}
    \cup {[ok |-> TRUE, people |-> pl, pagination |-> ls] :
            pl \in people_lists, ls \in link_sets}

LinkSets(n) == {S \in SUBSET DirUrls : Cardinality(S) <= n}

\* pages with at most one people link and up to MaxLinks pagination links
DirResponses ==
    DirResponsesOver({<<>>} \cup {<<h>> : h \in Hrefs}, LinkSets(MaxLinks))

\* pages with up to MaxPeopleLinks people links and up to MaxRerunLinks
\* pagination links
RerunDirResponses ==
    DirResponsesOver(SeqsUpTo(Hrefs, MaxPeopleLinks), LinkSets(MaxRerunLinks))

\* the profile pages the crawl meets: one with name header and biography
\* (scrape_profile returns a dict), one with neither (it returns None)
FullPage ==
    << [cls |-> TopClass, h1 |-> "Ada Lovelace", ul |-> <<>>, p |-> <<>>],
       [cls |-> BtmClass, h1 |-> NoText, ul |-> <<>>, p |-> <<"Syntax.">>] >>
BarePage == << [cls |-> "sidebar", h1 |-> NoText, ul |-> <<>>, p |-> <<>>] >>
CrawlProfileResponses == Responses({FullPage, BarePage})

\* list(set(pagination_links)): the links in any order, each once
Orderings(S) ==
    {s \in [1..Cardinality(S) -> S] : \A i, j \in DOMAIN s : s[i] = s[j] => i = j}

\* the record scrape_directory_page builds for one people link
profile_doc(link, text) ==
    LET person == urljoin(base_url, link)
        name  == IF text.kind = "dict" THEN text.name ELSE ""
        about == IF text.kind \in {"dict", "str"} THEN text.about ELSE ""
    IN  [profile_path |-> person, profile_url |-> person,
         full_name |-> name, about_me |-> about]

\* scrape_directory_page; responses[i] is what the server answers for the
\* i-th people link, links the order list(set(...)) gives the pagination urls
scrape_directory_page(response, links, responses) ==
    IF ~get_page(response)
    THEN [fetched |-> FALSE, profiles_data |-> <<>>, pagination_links |-> <<>>]
    ELSE LET texts == [i \in DOMAIN response.people |->
                          scrape_profile(responses[i])]
         IN  [fetched |-> TRUE,
              profiles_data |->
                  [i \in DOMAIN response.people |->
                      profile_doc(response.people[i], texts[i])],
              pagination_links |-> links]

\* the enqueue loop that does not look at the pending queue
RECURSIVE enqueue_unchecked(_, _, _)
enqueue_unchecked(queue, visited, links) ==
    IF links = <<>> THEN queue
    ELSE enqueue_unchecked(
             IF Head(links) \notin visited
             THEN Append(queue, Head(links)) ELSE queue,
             visited, Tail(links))

\* the enqueue loop putting each new link at the head of the queue
RECURSIVE enqueue_front(_, _, _)
enqueue_front(queue, visited, links) ==
    IF links = <<>> THEN queue
    ELSE enqueue_front(
             IF Head(links) \notin visited /\ Head(links) \notin Range(queue)
             THEN <<Head(links)>> \o queue ELSE queue,
             visited, Tail(links))

\* for link in pagination_links: append it unless visited or already queued
RECURSIVE enqueue(_, _, _)
enqueue(queue, visited, links) ==
    IF links = <<>> THEN queue
    ELSE enqueue(
             IF Head(links) \notin visited /\ Head(links) \notin Range(queue)
             THEN Append(queue, Head(links)) ELSE queue,
             visited, Tail(links))

\* the head of the queue is read and left in place
dequeue_peek(queue) == queue

\* what urls_to_visit.pop(0) leaves in the queue
dequeue(queue) == Tail(queue)

\* the links that the enqueue loop added to the queue, in the order it added
\* them
appended(before, after, links) ==
    LET added(link) == link \in Range(after) \ Range(before)
    IN  SelectSeq(links, added)

\* max_pages is <<>> for None
NoCap == <<>>

\* the while condition without its page cap
loop_condition_no_cap == urls_to_visit # <<>>

\* the while condition of scrape_all_pages
loop_condition ==
    /\ urls_to_visit # <<>>
    /\ IF max_pages = NoCap THEN TRUE ELSE page_count < max_pages[1]

\* the test that ends the loop, dropped
loop_break_never(data, links) == FALSE

\* if not profiles_data and not pagination_links: break
loop_break(data, links) == data = <<>> /\ links = <<>>

Call(method, arg, insert_failed) ==
    [method |-> method, arg |-> arg, insert_failed |-> insert_failed]

\* whether save_profiles, called on st with data, attempts the bulk insert
on_database(st, data) ==
    data # <<>> /\ ~st.use_file_storage /\ st.collection.connected

\* how the I/O of one save_profiles(data) call can turn out: the bulk insert
\* succeeds or fails after k < Len(data) documents, the file write succeeds
\* or fails
IOOutcomes(data) ==
    {io \in [insert_ok : BOOLEAN, k : 0..Len(data), write_ok : BOOLEAN] :
        /\ io.insert_ok => io.k = 0
        /\ io.k < Len(data) \/ io.k = 0}

\* the crawl is explored with a file that can be written
CrawlIO(data) == {io \in IOOutcomes(data) : io.write_ok}

\* one pass through the body of the while loop, the server answering with
\* one of dir_responses
Iterate(dir_responses) ==
    /\ pc = "running"
    /\ loop_condition
    /\ current_url' = Head(urls_to_visit)
    /\ IF Head(urls_to_visit) \in visited_urls
       THEN \* continue
            /\ urls_to_visit' = dequeue(urls_to_visit)
            /\ pc' = "running"
            /\ UNCHANGED <<store_vars, call_vars, run, max_pages, visited_urls,
                           all_profiles, page_count, fetched, profiles_data,
                           pagination_links, stored_at_start, enqueued,
                           fetch_order>>
       ELSE \E response \in dir_responses :
            \E links \in Orderings(response.pagination) :
            \E responses \in [DOMAIN response.people -> CrawlProfileResponses] :
               LET page == scrape_directory_page(response, links, responses)
                   data == page.profiles_data
                   visited == visited_urls \cup {Head(urls_to_visit)}
               IN  /\ visited_urls' = visited
                   /\ page_count' = page_count + 1
                   /\ fetched' = page.fetched
                   /\ profiles_data' = data
                   /\ pagination_links' = page.pagination_links
                   /\ IF data # <<>>
                      THEN \E io \in CrawlIO(data) :
                           /\ StoreBecomes(save_profiles(Store, data,
                                  io.insert_ok, io.k, io.write_ok))
                           /\ call' = Call("save_profiles", data,
                                  on_database(Store, data) /\ ~io.insert_ok)
                           /\ all_profiles' = all_profiles \o data
                      ELSE /\ UNCHANGED <<store_vars, raised, result>>
                           /\ trace' = <<>>
                           /\ call' = Call("scrape_directory_page",
                                           Head(urls_to_visit), FALSE)
                           /\ UNCHANGED all_profiles
                   /\ urls_to_visit' =
                          enqueue(dequeue(urls_to_visit), visited,
                                  page.pagination_links)
                   /\ fetch_order' = Append(fetch_order, Head(urls_to_visit))
                   /\ enqueued' = enqueued \o
                          appended(dequeue(urls_to_visit), urls_to_visit',
                                   page.pagination_links)
                   /\ pc' = IF loop_break(data, page.pagination_links)
                            THEN "done" ELSE "running"
                   /\ UNCHANGED <<run, max_pages, stored_at_start>>

LoopIteration == Iterate(DirResponses)

\* the while condition is false: return all_profiles
LoopExit ==
    /\ pc = "running"
    /\ ~loop_condition
    /\ pc' = "done"
    /\ UNCHANGED <<store_vars, call_vars, run, max_pages, visited_urls,
                   urls_to_visit, all_profiles, page_count, current_url,
                   fetched, profiles_data, pagination_links,
                   stored_at_start, enqueued, fetch_order>>

PageCaps == {NoCap, <<MaxPagesArg>>}

\* the locals of scrape_all_pages(base_url, cap) at its first line
CrawlStarts(cap) ==
    /\ pc' = "running"
    /\ max_pages' = cap
    /\ visited_urls' = {}
    /\ urls_to_visit' = <<base_url>>
    /\ all_profiles' = <<>>
    /\ page_count' = 0
    /\ current_url' = NoText
    /\ fetched' = FALSE
    /\ profiles_data' = <<>>
    /\ pagination_links' = <<>>
    /\ enqueued' = <<base_url>>
    /\ fetch_order' = <<>>

\* the program is started again on the stores the earlier runs left:
\* setup_database, PaginatedScraper(..., use_file_storage=collection is None),
\* scrape_all_pages
NewRun ==
    /\ pc = "done"
    /\ run < MaxRuns
    /\ Len(file) <= MaxStored /\ Len(collection.docs) <= MaxStored
    /\ collection' = collection
    /\ use_file_storage' = ~collection.connected
    /\ existing_profiles' = init_existing_profiles(~collection.connected)
    /\ CrawlStarts(max_pages)
    /\ run' = run + 1
    /\ stored_at_start' = [file |-> file, db |-> collection.docs]
    /\ call' = Call("__init__", <<>>, FALSE)
    /\ trace' = <<>>
    /\ raised' = FALSE
    /\ result' = NoText
    /\ UNCHANGED file

Init ==
    /\ collection \in [connected : BOOLEAN, docs : {<<>>}]
    /\ file = <<>>
    /\ use_file_storage = ~collection.connected
    /\ existing_profiles = <<>>
    /\ call = Call("__init__", <<>>, FALSE)
    /\ trace = <<>>
    /\ raised = FALSE
    /\ result = NoText
    /\ pc = "running"
    /\ run = 1
    /\ max_pages \in PageCaps
    /\ visited_urls = {}
    /\ urls_to_visit = <<base_url>>
    /\ all_profiles = <<>>
    /\ page_count = 0
    /\ current_url = NoText
    /\ fetched = FALSE
    /\ profiles_data = <<>>
    /\ pagination_links = <<>>
    /\ stored_at_start = [file |-> <<>>, db |-> <<>>]
    /\ enqueued = <<base_url>>
    /\ fetch_order = <<>>

\* one run of scrape_all_pages
Next == LoopIteration \/ LoopExit

Spec == Init /\ [][Next]_vars

\* scrape_all_pages is sequential code on one thread and every request it
\* makes has a timeout (get_page: timeout=30), so a pass of the loop that
\* can be taken is taken
SpecFair == Spec /\ WF_vars(Next)

\* repeated runs over the same stores
RerunIteration == Iterate(RerunDirResponses)

NextRerun == RerunIteration \/ LoopExit \/ NewRun

SpecRerun == Init /\ [][NextRerun]_vars

(***************************************************************************)
(* The persistence layer called directly: any sequence of save_profiles    *)
(* and profile_exists calls on one scraper instance, constructed with      *)
(* either value of use_file_storage, with or without a database.           *)
(***************************************************************************)
SamplePaths == {Origin \o "/people/a", Origin \o "/people/b"}
SampleRecords ==
    {[profile_path |-> path, profile_url |-> path,
      full_name |-> "Ada Lovelace", about_me |-> " Syntax. "] :
        path \in SamplePaths}
Batches == SeqsUpTo(SampleRecords, MaxBatch)

\* the crawl variables while no crawl is running
CrawlIdle ==
    /\ pc = "idle"
    /\ run = 1
    /\ max_pages = NoCap
    /\ visited_urls = {}
    /\ urls_to_visit = <<>>
    /\ all_profiles = <<>>
    /\ page_count = 0
    /\ current_url = NoText
    /\ fetched = FALSE
    /\ profiles_data = <<>>
    /\ pagination_links = <<>>
    /\ stored_at_start = [file |-> <<>>, db |-> <<>>]
    /\ enqueued = <<>>
    /\ fetch_order = <<>>

InitStore ==
    /\ collection \in [connected : BOOLEAN, docs : {<<>>}]
    /\ file \in SeqsUpTo(SampleRecords, 1)
    /\ use_file_storage \in BOOLEAN
    /\ existing_profiles = init_existing_profiles(use_file_storage)
    /\ call = Call("__init__", <<>>, FALSE)
    /\ trace = <<>>
    /\ raised = FALSE
    /\ result = NoText
    /\ CrawlIdle

SaveProfiles ==
    /\ pc = "idle"
    /\ \E data \in Batches :
       \E io \in IOOutcomes(data) :
          /\ Len(existing_profiles) + Len(collection.docs) + Len(data) <= MaxHeld
          /\ StoreBecomes(save_profiles(Store, data,
                                        io.insert_ok, io.k, io.write_ok))
          /\ call' = Call("save_profiles", data,
                          on_database(Store, data) /\ ~io.insert_ok)
    /\ UNCHANGED crawl_vars

ProfileExists ==
    /\ pc = "idle"
    /\ \E profile_path \in SamplePaths :
          /\ StoreBecomes(profile_exists(Store, profile_path))
          /\ call' = Call("profile_exists", profile_path, FALSE)
    /\ UNCHANGED crawl_vars

NextStore == SaveProfiles \/ ProfileExists

SpecStore == InitStore /\ [][NextStore]_vars

(***************************************************************************)
(* scrape_profile applied to one response of the server.                   *)
(***************************************************************************)
Pending == [kind |-> "pending", name |-> "", about |-> ""]

InitProfile ==
    /\ collection = [connected |-> FALSE, docs |-> <<>>]
    /\ file = <<>>
    /\ use_file_storage = TRUE
    /\ existing_profiles = <<>>
    /\ call \in {Call("scrape_profile", response, FALSE) :
                    response \in Responses(ProfilePages)}
    /\ trace = <<>>
    /\ raised = FALSE
    /\ result = Pending
    /\ CrawlIdle

ScrapeProfile ==
    /\ pc = "idle"
    /\ call.method = "scrape_profile"
    /\ result = Pending
    /\ result' = scrape_profile(call.arg)
    /\ raised' = (result'.kind = "raise")
    /\ UNCHANGED <<store_vars, call, trace, crawl_vars>>

NextProfile == ScrapeProfile

SpecProfile == InitProfile /\ [][NextProfile]_vars

(***************************************************************************)
(* Properties.                                                             *)
(***************************************************************************)

\* the records a run has added to the store it was started on
AddedToStartStore ==
    IF collection.connected
    THEN SubSeq(collection.docs, Len(stored_at_start.db) + 1,
                Len(collection.docs))
    ELSE SubSeq(file, Len(stored_at_start.file) + 1, Len(file))

StartStore ==
    IF collection.connected THEN stored_at_start.db ELSE stored_at_start.file

\* C1: a later run never inserts again a profile whose profile_path the store
\* it runs on already held when the run began.
C1_NoReinsertOnRerun ==
    run > 1 => Paths(AddedToStartStore) \cap Paths(StartStore) = {}

\* C2: a non-empty save_profiles on the database backend whose bulk insert
\* fails makes one insert attempt, then hands the batch to save_to_file
\* once, and lets no exception out.
C2_FailedInsertRetriesOnFileOnce ==
    (call.method = "save_profiles" /\ call.insert_failed)
    => /\ trace = <<"insert_many", "save_to_file">>
       /\ ~raised
       /\ Len(existing_profiles) >= Len(call.arg)
       /\ SubSeq(existing_profiles,
                 Len(existing_profiles) - Len(call.arg) + 1,
                 Len(existing_profiles)) = call.arg

C2_Witness ==
    /\ call.method = "save_profiles"
    /\ call.insert_failed
    /\ Len(call.arg) = MaxBatch
    /\ use_file_storage
    /\ file = call.arg

\* C3: once use_file_storage is set it stays set, and no later call on the
\* instance changes the collection, inserts into it or looks a path up in it.
C3_DowngradeIsSticky ==
    [][use_file_storage
       => /\ use_file_storage'
          /\ collection' = collection
          /\ \A i \in DOMAIN trace' :
                trace'[i] \notin {"insert_many", "find_one"}]_vars

\* a profile_exists call on an instance that had inserted into the database
\* and then switched to the file
C3_Witness ==
    /\ use_file_storage
    /\ collection.connected
    /\ collection.docs # <<>>
    /\ call.method = "profile_exists"
    /\ trace = <<"scan_existing_profiles">>

\* C4: save_profiles with an empty list touches no backend and changes
\* neither the collection, the file, existing_profiles nor use_file_storage.
C4_EmptySaveChangesNothing ==
    [][(call'.method = "save_profiles" /\ call'.arg = <<>>)
       => /\ UNCHANGED <<collection, file, existing_profiles, use_file_storage>>
          /\ trace' = <<>>]_vars

\* an empty save on an instance without database that is still on the
\* database path, while the file holds a record
C4_Witness ==
    /\ call.method = "save_profiles"
    /\ call.arg = <<>>
    /\ ~use_file_storage
    /\ ~collection.connected
    /\ file # <<>>

\* C5: after a directory page that gave no people links and no pagination
\* links the crawl is over, whatever is left in the queue.
C5_EmptyPageEndsCrawl ==
    (fetched /\ profiles_data = <<>> /\ pagination_links = <<>>)
    => pc = "done"

C5_Witness ==
    /\ pc = "done"
    /\ fetched
    /\ profiles_data = <<>>
    /\ pagination_links = <<>>
    /\ loop_condition

\* C6: the pending queue holds no url twice and no visited url, and every
\* visited url was fetched once.
C6_EnqueuedAtMostOnce ==
    /\ \A i, j \in DOMAIN urls_to_visit :
          urls_to_visit[i] = urls_to_visit[j] => i = j
    /\ Range(urls_to_visit) \cap visited_urls = {}
    /\ page_count = Cardinality(visited_urls)

\* the last page linked to a visited url and to a url that was already queued
C6_Witness ==
    /\ pc = "running"
    /\ Cardinality(visited_urls) = 2
    /\ \E l \in Range(pagination_links) : l \in visited_urls
    /\ \E l \in Range(pagination_links) : l \in Range(urls_to_visit)
    /\ Len(urls_to_visit) = 1

\* C7: a directory page whose fetch failed does not end the run while urls
\* are pending and the page cap is not reached.
C7_FetchFailureDoesNotEndCrawl ==
    (page_count > 0 /\ ~fetched /\ loop_condition) => pc = "running"

LacksBiography(divs) == find_all(divs, {BtmClass}) = {}

LacksAlternatives(divs) ==
    \A i \in DOMAIN alternative_selectors :
        select_p(divs, alternative_selectors[i]) = <<>>

LacksExpertise(divs) ==
    \/ find_all(divs, {ExpClass}) = {}
    \/ expertise_text(divs[Min(find_all(divs, {ExpClass}))].ul) = ""

Scraped == call.method = "scrape_profile" /\ result # Pending

\* C8 as stated: scrape_profile returns None for every page without the
\* biography container and without a match of any alternative selector.
C8_AbsentWithoutBiography ==
    (/\ Scraped
     /\ LacksBiography(call.arg.divs)
     /\ LacksAlternatives(call.arg.divs))
    => result = NoneResult

\* C8, amended: scrape_profile returns None, and raises nothing, for every
\* page without the biography container, without a match of any alternative
\* selector and without a non-empty areas-of-expertise list.
C8_AbsentWithoutContent ==
    (/\ Scraped
     /\ LacksBiography(call.arg.divs)
     /\ LacksAlternatives(call.arg.divs)
     /\ LacksExpertise(call.arg.divs))
    => result = NoneResult /\ ~raised

\* such a page whose name header has no h1
C8_Witness ==
    /\ Scraped
    /\ call.arg.ok
    /\ LacksBiography(call.arg.divs)
    /\ LacksAlternatives(call.arg.divs)
    /\ LacksExpertise(call.arg.divs)
    /\ \E i \in DOMAIN call.arg.divs :
          call.arg.divs[i].cls = TopClass /\ call.arg.divs[i].h1 = NoText
    /\ result = NoneResult

\* C9: no two records that one run of scrape_all_pages handed to
\* save_profiles have the same profile_path.
C9_PersistedOncePerRun ==
    \A i, j \in DOMAIN all_profiles :
        all_profiles[i].profile_path = all_profiles[j].profile_path => i = j

\* C10: no record with full_name and about_me both empty, which is what a
\* visit whose scrape_profile returned None leaves, is persisted.
C10_NoRecordForFailedVisit ==
    \A r \in Range(file) \cup Range(collection.docs) :
        ~(r.full_name = "" /\ r.about_me = "")

\* C11: when max_pages is given, page_count never exceeds it and no more
\* than max_pages directory pages have been fetched (every fetched page is
\* in visited_urls).
C11_PageCapHolds ==
    IF max_pages = NoCap THEN TRUE
    ELSE /\ page_count <= max_pages[1]
         /\ Cardinality(visited_urls) <= max_pages[1]

\* the cap stopped a crawl that still had a directory page queued
C11_Witness ==
    /\ pc = "done"
    /\ max_pages # NoCap
    /\ page_count = max_pages[1]
    /\ urls_to_visit # <<>>
    /\ ~(profiles_data = <<>> /\ pagination_links = <<>>)

\* why a finished run of scrape_all_pages stopped
QueueEmpty == urls_to_visit = <<>>
CapReached == IF max_pages = NoCap THEN FALSE ELSE page_count >= max_pages[1]
PageWasEmpty == profiles_data = <<>> /\ pagination_links = <<>>

\* C12: every run of scrape_all_pages ends, with or without a page cap and
\* whatever cycles the pagination links form; a run that has ended has an
\* empty queue, has reached the cap, or has just scraped a page with neither
\* profiles nor pagination links, and a run still in the loop after a page
\* has not scraped such a page.
C12_TerminatesForOneOfThreeReasons ==
    /\ <>(pc = "done")
    /\ [](pc = "done" => QueueEmpty \/ CapReached \/ PageWasEmpty)
    /\ [](pc = "running" /\ page_count > 0 => ~PageWasEmpty)

\* an uncapped run ended on an empty queue after a page that linked back to
\* the start page
C12_Witness ==
    /\ pc = "done"
    /\ max_pages = NoCap
    /\ QueueEmpty
    /\ current_url # base_url
    /\ base_url \in Range(pagination_links)

\* C13: the directory pages fetched so far are, in order, the first URLs
\* ever appended to the queue: page i of the run is the i-th URL enqueued,
\* so no URL is fetched before one that was enqueued earlier.
C13_FetchedInEnqueueOrder ==
    /\ Len(fetch_order) <= Len(enqueued)
    /\ \A i \in DOMAIN fetch_order : fetch_order[i] = enqueued[i]

\* the start page enqueued two further pages; the one enqueued first has been
\* fetched (and added no link) while the other still waits
C13_Witness ==
    /\ Len(fetch_order) = 2
    /\ Len(enqueued) = 3
    /\ pagination_links = <<>>
    /\ fetch_order[2] = enqueued[2]
    /\ urls_to_visit = <<enqueued[3]>>

LacksNameHeader(divs) == find_all(divs, {TopClass}) = {}

LacksPrimaryText(divs) ==
    /\ LacksExpertise(divs)
    /\ paragraph_text(select_p(divs, {BtmClass})) = ""

\* C14: for a fetched profile page without the name header container and
\* without biography or expertise text, on which an alternative selector
\* matches non-empty text, scrape_profile returns that text as a bare
\* string.
C14_FallsThroughToAlternatives ==
    (/\ Scraped
     /\ call.arg.ok
     /\ LacksNameHeader(call.arg.divs)
     /\ LacksPrimaryText(call.arg.divs)
     /\ alternatives(call.arg.divs, 1).kind = "str")
    => result = alternatives(call.arg.divs, 1)

\* C15: no save removes records from faculty_profiles.json: at every point
\* of a run the file holds the records it held when the run began, followed
\* by the batches the run has written to it (from the first file write on,
\* every batch of the run: a suffix of all_profiles), also when the instance
\* was constructed with use_file_storage False and fell back to the file.
C15_FileSaveKeepsRecords ==
    pc \in {"running", "done"} =>
        \E k \in 0..Len(all_profiles) :
            file = stored_at_start.file
                       \o SubSeq(all_profiles, k + 1, Len(all_profiles))

====
